---------------------------- MODULE Spec2Model ----------------------------
(***************************************************************************)
(* A model of vite-plugin-sri3 (src/src/index.ts): the hook adapter        *)
(* (hijackGenerateBundle), the filter/policy functions, the resolver and   *)
(* the HTML patcher (transformHTML) run by the generateBundle pass.        *)
(*                                                                         *)
(* Strings are sequences of one-character strings; positions inside a      *)
(* text are 0-based as in JavaScript (the character at JS index p is       *)
(* text[p+1]).                                                             *)
(***************************************************************************)
EXTENDS Integers, Sequences, FiniteSets, TLC

(***************************************************************************)
(* String helpers (String.prototype.startsWith / endsWith / includes /     *)
(* slice / replace).                                                       *)
(***************************************************************************)
HasAt(s, pos, p) ==
    /\ pos + Len(p) <= Len(s)
    /\ \A i \in 1..Len(p) : s[pos + i] = p[i]

StartsWith(s, p) == HasAt(s, 0, p)

EndsWith(s, p) == Len(p) <= Len(s) /\ HasAt(s, Len(s) - Len(p), p)

Includes(s, p) == \E pos \in 0..Len(s) : HasAt(s, pos, p)

Slice(s, from, to) == SubSeq(s, from + 1, to)

IndexOf(s, p) ==
    IF Includes(s, p)
    THEN CHOOSE pos \in 0..Len(s) :
            HasAt(s, pos, p) /\ \A q \in 0..(pos - 1) : ~HasAt(s, q, p)
    ELSE -1

\* String.prototype.replace(pattern, "") with a string pattern: the first
\* occurrence only, wherever it is.
ReplaceFirstWithEmpty(s, p) ==
    LET i == IndexOf(s, p)
    IN  IF i < 0 THEN s ELSE Slice(s, 0, i) \o Slice(s, i + Len(p), Len(s))

(***************************************************************************)
(* Regular expressions: a regex is a sequence of elements, each a literal  *)
(* or a character class with a greedy quantifier; matching backtracks in   *)
(* the order a JavaScript engine does (longest repetition first).          *)
(***************************************************************************)
Lit(s) == [kind |-> "lit", lit |-> s, cls |-> "", min |-> 1, many |-> FALSE, group |-> 0]
Cls(c, min, many, g) ==
    [kind |-> "cls", lit |-> <<>>, cls |-> c, min |-> min, many |-> many, group |-> g]

InClass(ch, c) ==
    CASE c = "quote"      -> ch \in {"'", "\""}
      [] c = "notAngle"   -> ch \notin {"<", ">"}
      [] c = "urlScript"  -> ch \notin {" ", "'", "\""}
      [] c = "urlLink"    -> ch \notin {"^", " ", "'", "\""}

RECURSIVE RunLen(_, _, _)
\* How many characters from pos on belong to class c.
RunLen(text, pos, c) ==
    IF pos < Len(text) /\ InClass(text[pos + 1], c)
    THEN 1 + RunLen(text, pos + 1, c)
    ELSE 0

NoMatch == [ok |-> FALSE, index |-> 0, end |-> 0, url |-> <<>>]

RECURSIVE MatchFrom(_, _, _, _)
RECURSIVE TryLen(_, _, _, _, _)
\* Elements i.. of re matched at pos: the first success in backtracking order.
MatchFrom(re, text, i, pos) ==
    IF i > Len(re)
    THEN [ok |-> TRUE, index |-> 0, end |-> pos, url |-> <<>>]
    ELSE IF re[i].kind = "lit"
         THEN IF HasAt(text, pos, re[i].lit)
              THEN MatchFrom(re, text, i + 1, pos + Len(re[i].lit))
              ELSE NoMatch
         ELSE LET run == RunLen(text, pos, re[i].cls)
                  most == IF re[i].many THEN run ELSE IF run > 1 THEN 1 ELSE run
              IN  TryLen(re, text, i, pos, most)

\* A greedy quantifier: the longest repetition first, one character given
\* back at a time.
TryLen(re, text, i, pos, k) ==
    IF k < re[i].min
    THEN NoMatch
    ELSE LET r == MatchFrom(re, text, i + 1, pos + k)
         IN  IF r.ok
             THEN IF re[i].group = 2
                  THEN [r EXCEPT !.url = Slice(text, pos, pos + k)]
                  ELSE r
             ELSE TryLen(re, text, i, pos, k - 1)

RECURSIVE FirstMatch(_, _, _)
\* The match at the least of the candidate positions that has one.
FirstMatch(re, text, cands) ==
    IF cands = {}
    THEN NoMatch
    ELSE LET p == CHOOSE x \in cands : \A y \in cands : x <= y
             r == MatchFrom(re, text, 1, p)
         IN  IF r.ok THEN [r EXCEPT !.index = p]
             ELSE FirstMatch(re, text, cands \ {p})

\* RegExp.prototype.exec of a global regex: the leftmost match starting at
\* or after lastIndex.  A regex that begins with a literal can only match
\* where that literal stands.
ExecFrom(re, text, start) ==
    FirstMatch(re, text,
        {p \in start..Len(text) :
            re[1].kind = "lit" => HasAt(text, p, re[1].lit)})

Q == Cls("quote", 0, TRUE, 0)

EXTERNAL_SCRIPT_RE ==
    << Lit(<<"<","s","c","r","i","p","t">>), Cls("notAngle", 0, TRUE, 1),
       Q, Lit(<<"s","r","c">>), Q, Lit(<<"=">>), Q,
       Cls("urlScript", 1, TRUE, 2), Q, Cls("notAngle", 0, TRUE, 3),
       Lit(<<">","<","/","s","c","r","i","p","t",">">>) >>

LinkRe(rel) ==
    << Lit(<<"<","l","i","n","k">>), Cls("notAngle", 0, TRUE, 1),
       Q, Lit(<<"r","e","l">>), Q, Lit(<<"=">>), Q, Lit(rel), Q,
       Cls("notAngle", 1, TRUE, 0), Q, Lit(<<"h","r","e","f">>), Q, Lit(<<"=">>),
       Cls("quote", 1, FALSE, 0), Cls("urlLink", 1, TRUE, 2),
       Cls("quote", 1, FALSE, 0), Cls("notAngle", 0, TRUE, 3), Lit(<<">">>) >>

EXTERNAL_CSS_RE == LinkRe(<<"s","t","y","l","e","s","h","e","e","t">>)

EXTERNAL_MODULE_RE ==
    LinkRe(<<"m","o","d","u","l","e","p","r","e","l","o","a","d">>)


(***************************************************************************)
(* JavaScript values of the option fields (a missing field is undefined).  *)
(***************************************************************************)
JsUndefined == [t |-> "undefined"]
JsNull == [t |-> "null"]
JsBool(b) == [t |-> "boolean", v |-> b]
JsStr(s) == [t |-> "string", v |-> s]
JsArray(a) == [t |-> "array", v |-> a]
JsFunction(f) == [t |-> "function", v |-> f]

\* ToBoolean: what `if (x)` and `x && ...` test.
Truthy(x) ==
    CASE x.t = "undefined" -> FALSE
      [] x.t = "null"      -> FALSE
      [] x.t = "boolean"   -> x.v
      [] x.t = "string"    -> Len(x.v) > 0
      [] OTHER             -> TRUE

\* A pattern entry: a string, or a (non-global) RegExp.
PatStr(s) == [kind |-> "string", s |-> s, re |-> <<>>]
PatRe(re) == [kind |-> "regexp", s |-> <<>>, re |-> re]

S_http == <<"h","t","t","p">>
S_httpColonSlashSlash == <<"h","t","t","p",":","/","/">>
S_httpsColonSlashSlash == <<"h","t","t","p","s",":","/","/">>
S_slashSlash == <<"/","/">>
S_dotHtml == <<".","h","t","m","l">>
S_dotHtm == <<".","h","t","m">>
S_anonymous == <<"a","n","o","n","y","m","o","u","s">>

isExternalUrl(url) ==
    \/ StartsWith(url, S_httpColonSlashSlash)
    \/ StartsWith(url, S_httpsColonSlashSlash)
    \/ StartsWith(url, S_slashSlash)

matchesPatterns(url, patterns) ==
    \E i \in 1..Len(patterns) :
        IF patterns[i].kind = "string"
        THEN Includes(url, patterns[i].s)
        ELSE ExecFrom(patterns[i].re, url, 0).ok

shouldProcessUrl(url, options) ==
    IF Truthy(options.excludeExternal) /\ isExternalUrl(url)
    THEN FALSE
    ELSE IF Truthy(options.excludePatterns)
            /\ matchesPatterns(url, options.excludePatterns.v)
    THEN FALSE
    ELSE IF Truthy(options.includePatterns)
            /\ ~matchesPatterns(url, options.includePatterns.v)
    THEN FALSE
    ELSE TRUE

\* ` crossorigin="<value>"`
CrossoriginText(value) ==
    <<" ","c","r","o","s","s","o","r","i","g","i","n","=","\"">> \o value \o <<"\"">>

StaticCrossorigin(url, options) ==
    IF options.crossorigin = JsBool(FALSE) \/ options.crossorigin = JsNull
    THEN <<>>
    ELSE IF options.crossorigin = JsBool(TRUE)
    THEN CrossoriginText(S_anonymous)
    ELSE IF options.crossorigin.t = "string"
    THEN CrossoriginText(options.crossorigin.v)
    ELSE IF isExternalUrl(url) THEN CrossoriginText(S_anonymous) ELSE <<>>

\* A variant that lets a static false or null decide before the function is
\* asked.
getCrossoriginAttribute_StaticFirst(url, options) ==
    IF options.crossorigin = JsBool(FALSE) \/ options.crossorigin = JsNull
    THEN <<>>
    ELSE IF Truthy(options.customCrossorigin)
    THEN LET result == options.customCrossorigin.v[url]
         IN  IF result = JsNull \/ result = JsBool(FALSE) THEN <<>>
             ELSE IF result = JsBool(TRUE) THEN CrossoriginText(S_anonymous)
             ELSE IF result.t = "string" THEN CrossoriginText(result.v)
             ELSE StaticCrossorigin(url, options)
    ELSE StaticCrossorigin(url, options)

\* getCrossoriginAttribute: the customCrossorigin function first, the static
\* option when there is none.
getCrossoriginAttribute(url, options) ==
    IF Truthy(options.customCrossorigin)
    THEN LET result == options.customCrossorigin.v[url]
         IN  IF result = JsNull \/ result = JsBool(FALSE) THEN <<>>
             ELSE IF result = JsBool(TRUE) THEN CrossoriginText(S_anonymous)
             ELSE IF result.t = "string" THEN CrossoriginText(result.v)
             ELSE StaticCrossorigin(url, options)
    ELSE StaticCrossorigin(url, options)

(***************************************************************************)
(* path.posix.resolve(htmlPath, url) as Node computes it: the arguments    *)
(* are joined right to left until one is absolute, the working directory   *)
(* is prepended when none is, and the result is normalized.                *)
(***************************************************************************)
ProcessCwd == <<"/","w">>

RECURSIVE SplitSlash(_, _)
\* The segments of s between "/" characters; acc is the open segment.
SplitSlash(s, acc) ==
    IF s = <<>> THEN <<acc>>
    ELSE IF Head(s) = "/" THEN <<acc>> \o SplitSlash(Tail(s), <<>>)
    ELSE SplitSlash(Tail(s), Append(acc, Head(s)))

RECURSIVE NormalizeSegments(_, _)
\* Drops "" and ".", and lets ".." remove the segment before it (nothing
\* above the root).
NormalizeSegments(segs, out) ==
    IF segs = <<>> THEN out
    ELSE LET seg == Head(segs)
         IN  IF seg = <<>> \/ seg = <<".">>
             THEN NormalizeSegments(Tail(segs), out)
             ELSE IF seg = <<".", ".">>
             THEN NormalizeSegments(Tail(segs),
                      IF out = <<>> THEN out ELSE SubSeq(out, 1, Len(out) - 1))
             ELSE NormalizeSegments(Tail(segs), Append(out, seg))

RECURSIVE JoinAbsolute(_)
JoinAbsolute(segs) ==
    IF segs = <<>> THEN <<>>
    ELSE <<"/">> \o Head(segs) \o JoinAbsolute(Tail(segs))

IsAbsolutePath(p) == Len(p) > 0 /\ p[1] = "/"

PathPosixResolve(from, to) ==
    LET joined ==
            IF IsAbsolutePath(to) THEN to
            ELSE IF IsAbsolutePath(from) THEN from \o <<"/">> \o to
            ELSE ProcessCwd \o <<"/">> \o from \o <<"/">> \o to
        segs == NormalizeSegments(SplitSlash(joined, <<>>), <<>>)
    IN  IF segs = <<>> THEN <<"/">> ELSE JoinAbsolute(segs)

getBundleKey(configBase, htmlPath, url) ==
    IF configBase = <<".", "/">> \/ configBase = <<>>
    THEN PathPosixResolve(htmlPath, url)
    ELSE ReplaceFirstWithEmpty(url, configBase)

\* calculateIntegrity's dispatch: `resourcePath.startsWith("http")`.
UsesFetch(url) == StartsWith(url, S_http)

(***************************************************************************)
(* The digest.  SHA-384 is taken as a collision-free function of the       *)
(* content; its base64 text is written over an alphabet of its own.        *)
(***************************************************************************)
DigestChar(ch) ==
    CASE ch = "x" -> "P"
      [] ch = "y" -> "Q"
      [] ch = "z" -> "R"
      [] ch = "!" -> "S"
      [] OTHER    -> "0"

Sha384Base64(source) == [i \in 1..Len(source) |-> DigestChar(source[i])]

IntegrityOf(source) ==
    <<"s","h","a","3","8","4","-">> \o Sha384Base64(source)

\* ` integrity="${change.integrity}"${change.crossoriginAttr}`
InsertText(change) ==
    <<" ","i","n","t","e","g","r","i","t","y","=","\"">> \o change.integrity
        \o <<"\"">> \o change.crossoriginAttr


(***************************************************************************)
(* Bounds of the model.                                                    *)
(***************************************************************************)
\* The most reference tags the HTML documents of one bundle hold together.
MaxTags == 2

\* The most invocations of the generateBundle hook in one build (one per
\* output).
MaxInvocations == 2

(***************************************************************************)
(* The inputs: urls, tags, documents, bundles, options.                    *)
(***************************************************************************)
U_a == <<"/","a">>
U_b == <<"/","b">>
U_m == <<"/","m">>
U_net == <<"h","t","t","p",":","/","/","c","/","a">>
U_pr == <<"/","/","c","/","a">>
U_rel == <<"h","t","t","p","a">>

DocUrls == {U_a, U_b, U_m, U_net, U_pr, U_rel}

ScriptTag(url) ==
    <<"<","s","c","r","i","p","t"," ","s","r","c","=","\"">> \o url
        \o <<"\"",">","<","/","s","c","r","i","p","t",">">>

LinkTag(rel, url) ==
    <<"<","l","i","n","k"," ","r","e","l","=","\"">> \o rel
        \o <<"\""," ","h","r","e","f","=","\"">> \o url \o <<"\"",">">>

CssTag(url) == LinkTag(<<"s","t","y","l","e","s","h","e","e","t">>, url)

ModuleTag(url) ==
    LinkTag(<<"m","o","d","u","l","e","p","r","e","l","o","a","d">>, url)

TagSet ==
    {ScriptTag(U_a), ScriptTag(U_m), ScriptTag(U_net), ScriptTag(U_pr),
     ScriptTag(U_rel), CssTag(U_b), ModuleTag(U_a)}

RECURSIVE Flatten(_)
Flatten(seqs) == IF seqs = <<>> THEN <<>> ELSE Head(seqs) \o Flatten(Tail(seqs))

\* The sequences over S of length 1..n.
SeqsUpTo(S, n) == UNION {[1..k -> S] : k \in 1..n}

RECURSIVE SplitDocs(_, _, _)
\* tags[j..] cut into documents after every index in cuts.
SplitDocs(tags, cuts, j) ==
    IF j > Len(tags) THEN <<>>
    ELSE LET e == CHOOSE k \in j..Len(tags) :
                      /\ k = Len(tags) \/ k \in cuts
                      /\ \A m \in j..(k - 1) : m \notin cuts
         IN  <<Flatten(SubSeq(tags, j, e))>> \o SplitDocs(tags, cuts, e + 1)

\* The HTML documents of a bundle, in bundle order: each the text of its
\* tags, the documents holding MaxTags tags at most together.
DocLists ==
    UNION {{SplitDocs(tags, cuts, 1) : cuts \in SUBSET (1..(Len(tags) - 1))} :
              tags \in SeqsUpTo(TagSet, MaxTags)}

N_a == <<"a">>
N_b == <<"b">>

\* The output path of the i-th HTML document: index.html, a nested
\* sub/page.htm, then further .html files.
DocName(i) ==
    IF i = 1 THEN <<"i">> \o S_dotHtml
    ELSE IF i = 2 THEN <<"s","/","p">> \o S_dotHtm
    ELSE [j \in 1..i |-> "d"] \o S_dotHtml

ChunkEntry(name, code) ==
    [type |-> "chunk", fileName |-> name, code |-> code, source |-> <<>>]
AssetEntry(name, source) ==
    [type |-> "asset", fileName |-> name, code |-> <<>>, source |-> source]

\* The bundle the host hands over: a chunk a, an asset b, the documents.
BundleNames(docs) == <<N_a, N_b>> \o [i \in 1..Len(docs) |-> DocName(i)]

BundleOf(docs) ==
    [n \in {BundleNames(docs)[i] : i \in 1..(Len(docs) + 2)} |->
        IF n = N_a THEN ChunkEntry(n, <<"x">>)
        ELSE IF n = N_b THEN AssetEntry(n, <<"y">>)
        ELSE AssetEntry(n, docs[CHOOSE i \in 1..Len(docs) : DocName(i) = n])]

\* customCrossorigin functions a user may pass.
S_useCredentials == <<"u","s","e","-","c","r","e","d","e","n","t","i","a","l","s">>

CustomByUrl ==
    [u \in DocUrls |-> IF isExternalUrl(u) THEN JsStr(S_useCredentials) ELSE JsNull]

\* The options object passed to sri(), fields left out being undefined.
NoOptions ==
    [ignoreMissingAssets |-> JsUndefined, crossorigin |-> JsUndefined,
     customCrossorigin |-> JsUndefined, excludeExternal |-> JsUndefined,
     excludePatterns |-> JsUndefined, includePatterns |-> JsUndefined]

UserOptions ==
    {NoOptions,
     [NoOptions EXCEPT !.ignoreMissingAssets = JsBool(TRUE)],
     [NoOptions EXCEPT !.ignoreMissingAssets = JsBool(TRUE),
                       !.excludePatterns = JsArray(<<PatStr(<<"b">>)>>),
                       !.customCrossorigin = JsFunction(CustomByUrl)]}

\* sri(): the destructuring of the options with its defaults.
Default(x, d) == IF x = JsUndefined THEN d ELSE x

Destructure(o) ==
    [ignoreMissingAsset |-> Default(o.ignoreMissingAssets, JsBool(FALSE)),
     crossorigin |-> Default(o.crossorigin, JsBool(TRUE)),
     customCrossorigin |-> o.customCrossorigin,
     excludeExternal |-> Default(o.excludeExternal, JsBool(FALSE)),
     excludePatterns |-> Default(o.excludePatterns, JsArray(<<>>)),
     includePatterns |-> o.includePatterns]

\* config.base as the build resolves it.
Bases == {<<"/">>, <<".","/">>}

(***************************************************************************)
(* State.                                                                  *)
(***************************************************************************)
VARIABLES
    options,      \* the destructured options of sri() (closure variables)
    configBase,   \* config.base
    bundle,       \* the output bundle: name -> entry
    names,        \* the bundle's keys in `for (const name in bundle)` order
    pc,           \* where the build is
    error,        \* the error the build failed with, "" if none
    nameIdx,      \* generateBundle: index into names of the entry at hand
    pass,         \* 1 script, 2 stylesheet, 3 modulepreload
    html,         \* transformHTML: the html parameter
    changes,      \* transformHTML: changes
    offset,       \* transformHTML: offset
    ci,           \* transformHTML: index of the next change to apply
    lastIndex,    \* regex.lastIndex of the three module-level regexes
    cur,          \* the match whose fetch is pending
    passIn,       \* history: html as the running pass received it
    log,          \* history: the resolutions made, in order
    emitted,      \* the HTML files the host has written: name -> text
    plugins,      \* hook adapter: config.plugins
    hookPc,       \* hook adapter: where setup and the hook invocation are
    hookError,    \* hook adapter: the error setup or the hook ended with
    calls,        \* hook adapter: history of handler starts and ends
    args,         \* hook adapter: the arguments of the invocation under way
    invocations,  \* hook adapter: invocations the host has made
    call,         \* function under test: its arguments
    ret           \* function under test: its result

passVars == <<options, configBase, bundle, names, pc, error, nameIdx, pass,
              html, changes, offset, ci, lastIndex, cur, passIn, log, emitted>>
hookVars == <<plugins, hookPc, hookError, calls, args, invocations>>
fnVars == <<call, ret>>
vars == <<passVars, hookVars, fnVars>>

NoCur == [url |-> <<>>, end |-> 0]
NoCall == [fn |-> "none"]

\* The variables a specification does not use, at rest.
PassIdle ==
    /\ options = Destructure(NoOptions)
    /\ configBase = <<"/">>
    /\ bundle = BundleOf(<<>>)
    /\ names = BundleNames(<<>>)
    /\ pc = "idle" /\ error = "" /\ nameIdx = 1 /\ pass = 1
    /\ html = <<>> /\ changes = <<>> /\ offset = 0 /\ ci = 1
    /\ lastIndex = [r \in 1..3 |-> 0]
    /\ cur = NoCur /\ passIn = <<>> /\ log = <<>> /\ emitted = {}

HookIdle ==
    /\ plugins = <<>>
    /\ hookPc = "idle" /\ hookError = ""
    /\ calls = <<>> /\ args = "" /\ invocations = 0

FnIdle == call = NoCall /\ ret = NoCall

(***************************************************************************)
(* The generateBundle pass (the afterHook): src/src/index.ts 97-164.       *)
(***************************************************************************)
Regex(p) ==
    CASE p = 1 -> EXTERNAL_SCRIPT_RE
      [] p = 2 -> EXTERNAL_CSS_RE
      [] p = 3 -> EXTERNAL_MODULE_RE

\* The endOffset argument of the three transformHTML calls.
EndOffset(p) == IF p = 1 THEN 10 ELSE 1

IsHtmlEntry(chunk) ==
    /\ chunk.type = "asset"
    /\ EndsWith(chunk.fileName, S_dotHtml) \/ EndsWith(chunk.fileName, S_dotHtm)

\* A variant that reads the other field of the entry.
SourceOf_Swapped(bundleItem) ==
    IF bundleItem.type = "chunk" THEN bundleItem.source ELSE bundleItem.code

\* `source = bundleItem.type === "chunk" ? bundleItem.code : bundleItem.source`
SourceOf(bundleItem) ==
    IF bundleItem.type = "chunk" THEN bundleItem.code ELSE bundleItem.source

\* The change transformHTML pushes for a match ending at `end`.
NewChange(url, end, source, p) ==
    [integrity |-> IntegrityOf(source),
     crossoriginAttr |-> getCrossoriginAttribute(url,
         [crossorigin |-> options.crossorigin,
          customCrossorigin |-> options.customCrossorigin]),
     insertPos |-> end - EndOffset(p)]

\* A string fetch() can parse as an absolute URL.
IsFetchable(url) ==
    StartsWith(url, S_httpColonSlashSlash) \/ StartsWith(url, S_httpsColonSlashSlash)

Bodies == {<<"z">>, <<"x","z">>}

PassInit ==
    /\ \E docs \in DocLists :
          /\ bundle = BundleOf(docs)
          /\ names = BundleNames(docs)
    /\ \E o \in UserOptions : options = Destructure(o)
    /\ configBase \in Bases
    /\ pc = "loop" /\ error = "" /\ nameIdx = 1 /\ pass = 1
    /\ html = <<>> /\ changes = <<>> /\ offset = 0 /\ ci = 1
    /\ lastIndex = [r \in 1..3 |-> 0]
    /\ cur = NoCur /\ passIn = <<>> /\ log = <<>> /\ emitted = {}

\* `for (const name in bundle)`: the next entry; an HTML asset starts its
\* first transformHTML call, any other entry is passed over.
NextEntry ==
    /\ pc = "loop"
    /\ IF nameIdx > Len(names)
       THEN /\ pc' = "done"
            /\ UNCHANGED <<nameIdx, pass, html, passIn, changes, offset, ci, lastIndex>>
       ELSE LET chunk == bundle[names[nameIdx]]
            IN  IF IsHtmlEntry(chunk)
                THEN /\ html' = chunk.source
                     /\ passIn' = chunk.source
                     /\ pass' = 1 /\ changes' = <<>> /\ offset' = 0 /\ ci' = 1
                     /\ lastIndex' = [lastIndex EXCEPT ![1] = 0]
                     /\ pc' = "exec"
                     /\ UNCHANGED nameIdx
                ELSE /\ nameIdx' = nameIdx + 1
                     /\ UNCHANGED <<pc, pass, html, passIn, changes, offset, ci, lastIndex>>
    /\ UNCHANGED <<options, configBase, bundle, names, error, cur, log, emitted>>
    /\ UNCHANGED <<hookVars, fnVars>>


\* The options transformHTML hands to shouldProcessUrl.
FilterOptions ==
    [excludeExternal |-> options.excludeExternal,
     excludePatterns |-> options.excludePatterns,
     includePatterns |-> options.includePatterns,
     customCrossorigin |-> options.customCrossorigin]

\* `if (ignoreMissingAsset) return null`, else the throw.
IgnoresMissing == Truthy(options.ignoreMissingAsset)

\* A variant that splices the text as soon as the change is computed.
OnChange_Eager(change) ==
    /\ changes' = Append(changes, change)
    /\ html' = Slice(html, 0, change.insertPos) \o InsertText(change)
                   \o Slice(html, change.insertPos, Len(html))
    /\ UNCHANGED offset

\* `changes.push(...)`: the text is left as it is until the scan is over.
OnChange(change) ==
    /\ changes' = Append(changes, change)
    /\ UNCHANGED <<html, offset>>

\* A history record of one calculateIntegrity call: the route taken, the
\* bundle key looked up or the body fetched, and the match it was for.
Resolution(url, end, route, key, found) ==
    [url |-> url, end |-> end, route |-> route, key |-> key, found |-> found,
     body |-> <<>>, doc |-> names[nameIdx], pass |-> pass]

\* One turn of `while ((match = regex.exec(html)))` up to the next await of
\* a fetch: no match ends the scan; a filtered-out url and an ignored
\* missing asset `continue`; a missing asset throws; a bundle entry gives a
\* change; a url starting with "http" starts a fetch.
Exec ==
    /\ pc = "exec"
    /\ \E m \in {ExecFrom(Regex(pass), html, lastIndex[pass])} :
           IF ~m.ok
           THEN /\ lastIndex' = [lastIndex EXCEPT ![pass] = 0]
                /\ pc' = "apply" /\ ci' = 1
                /\ UNCHANGED <<changes, html, offset, cur, log, error>>
           ELSE /\ lastIndex' = [lastIndex EXCEPT ![pass] = m.end]
                /\ ci' = ci
                /\ IF ~shouldProcessUrl(m.url, FilterOptions)
                   THEN UNCHANGED <<pc, changes, html, offset, cur, log, error>>
                   ELSE IF UsesFetch(m.url)
                   THEN /\ pc' = "await"
                        /\ cur' = [url |-> m.url, end |-> m.end]
                        /\ log' = Append(log, Resolution(m.url, m.end, "fetch", <<>>, FALSE))
                        /\ UNCHANGED <<changes, html, offset, error>>
                   ELSE LET key == getBundleKey(configBase, names[nameIdx], m.url)
                            found == key \in DOMAIN bundle
                        IN  /\ log' = Append(log, Resolution(m.url, m.end, "bundle", key, found))
                            /\ cur' = cur
                            /\ IF ~found
                               THEN IF IgnoresMissing
                                    THEN UNCHANGED <<pc, changes, html, offset, error>>
                                    ELSE /\ pc' = "failed"
                                         /\ error' = "MissingAsset"
                                         /\ UNCHANGED <<changes, html, offset>>
                               ELSE /\ OnChange(NewChange(m.url, m.end,
                                                          SourceOf(bundle[key]), pass))
                                    /\ UNCHANGED <<pc, error>>
    /\ UNCHANGED <<options, configBase, bundle, names, nameIdx, pass, passIn, emitted>>
    /\ UNCHANGED <<hookVars, fnVars>>

\* The pending fetch answers: the body is hashed and the change pushed.
FetchResolve ==
    /\ pc = "await"
    /\ IsFetchable(cur.url)
    /\ \E body \in Bodies :
          /\ OnChange(NewChange(cur.url, cur.end, body, pass))
          /\ log' = [log EXCEPT ![Len(log)].body = body, ![Len(log)].found = TRUE]
    /\ pc' = "exec"
    /\ cur' = NoCur
    /\ UNCHANGED <<options, configBase, bundle, names, error, nameIdx, pass, ci,
                   lastIndex, passIn, emitted>>
    /\ UNCHANGED <<hookVars, fnVars>>

\* The pending fetch fails: the rejection leaves transformHTML and
\* generateBundle.
FetchReject ==
    /\ pc = "await"
    /\ pc' = "failed"
    /\ error' = "NetworkFetch"
    /\ cur' = NoCur
    /\ UNCHANGED <<options, configBase, bundle, names, nameIdx, pass, html, changes,
                   offset, ci, lastIndex, passIn, log, emitted>>
    /\ UNCHANGED <<hookVars, fnVars>>

\* A variant that forgets the lengths already inserted.
InsertAt_NoOffset(text, change, off) ==
    Slice(text, 0, change.insertPos) \o InsertText(change)
        \o Slice(text, change.insertPos, Len(text))

\* `html.slice(0, insertPos + offset) + insertText + html.slice(insertPos + offset)`
InsertAt(text, change, off) ==
    Slice(text, 0, change.insertPos + off) \o InsertText(change)
        \o Slice(text, change.insertPos + off, Len(text))

\* One turn of `for (const change of changes)`.
ApplyChange ==
    /\ pc = "apply"
    /\ ci <= Len(changes)
    /\ html' = InsertAt(html, changes[ci], offset)
    /\ offset' = offset + Len(InsertText(changes[ci]))
    /\ ci' = ci + 1
    /\ UNCHANGED <<options, configBase, bundle, names, pc, error, nameIdx, pass,
                   changes, lastIndex, cur, passIn, log, emitted>>
    /\ UNCHANGED <<hookVars, fnVars>>

\* `return html`: the next transformHTML call of the document, or after the
\* third `chunk.source = html` and the next entry.
PassReturn ==
    /\ pc = "apply"
    /\ ci > Len(changes)
    /\ IF pass < 3
       THEN /\ pass' = pass + 1
            /\ passIn' = html
            /\ lastIndex' = [lastIndex EXCEPT ![pass + 1] = 0]
            /\ pc' = "exec"
            /\ UNCHANGED <<bundle, nameIdx, html>>
       ELSE /\ bundle' = [bundle EXCEPT ![names[nameIdx]].source = html]
            /\ nameIdx' = nameIdx + 1
            /\ pc' = "loop"
            /\ UNCHANGED <<pass, passIn, lastIndex, html>>
    /\ changes' = <<>> /\ offset' = 0 /\ ci' = 1
    /\ UNCHANGED <<options, configBase, names, error, cur, log, emitted>>
    /\ UNCHANGED <<hookVars, fnVars>>

\* The hook has returned without an error: the host writes the bundle.  A
\* hook that has thrown ends the build, and nothing is written.
HostEmit ==
    /\ pc = "done"
    /\ emitted' = {[name |-> n, text |-> bundle[n].source] :
                      n \in {x \in DOMAIN bundle : IsHtmlEntry(bundle[x])}}
    /\ pc' = "emitted"
    /\ UNCHANGED <<options, configBase, bundle, names, error, nameIdx, pass, html,
                   changes, offset, ci, lastIndex, cur, passIn, log>>
    /\ UNCHANGED <<hookVars, fnVars>>

(***************************************************************************)
(* The hook adapter: configResolved's lookup of the host plugin and        *)
(* hijackGenerateBundle, src/src/index.ts 21-36 and 166-171.  The          *)
(* afterHook is any async handler here.                                    *)
(***************************************************************************)
VITE_INTERNAL_ANALYSIS_PLUGIN == "vite:build-import-analysis"

\* plugin.generateBundle as configResolved may find it: undefined, null, a
\* function, an object with a handler, an object without one.
HookShapes == {"undefined", "null", "function", "object", "objectNoHandler"}

PluginOf(name, shape) == [name |-> name, generateBundle |-> shape, wrapped |-> FALSE]

OtherPlugin == PluginOf("vite:css", "function")

\* config.plugins: the internal plugin may be missing, alone, or before or
\* after another plugin.
PluginLists ==
    {<<>>, <<OtherPlugin>>}
    \cup UNION {{<<h>>, <<OtherPlugin, h>>, <<h, OtherPlugin>>} :
                  h \in {PluginOf(VITE_INTERNAL_ANALYSIS_PLUGIN, sh) : sh \in HookShapes}}

\* `config.plugins.find(p => p.name === VITE_INTERNAL_ANALYSIS_PLUGIN)`: the
\* index of the first such plugin, 0 for undefined.
FindPlugin(ps) ==
    IF \E i \in 1..Len(ps) : ps[i].name = VITE_INTERNAL_ANALYSIS_PLUGIN
    THEN CHOOSE i \in 1..Len(ps) :
            /\ ps[i].name = VITE_INTERNAL_ANALYSIS_PLUGIN
            /\ \A j \in 1..(i - 1) : ps[j].name # VITE_INTERNAL_ANALYSIS_PLUGIN
    ELSE 0

\* hijackGenerateBundle: the plugin as the two `if`s leave it.  The wrapper
\* replaces hook.handler of an object with a handler, and
\* plugin.generateBundle when that is a function.
hijackGenerateBundle(plugin) ==
    IF plugin.generateBundle = "object" THEN [plugin EXCEPT !.wrapped = TRUE]
    ELSE IF plugin.generateBundle = "function" THEN [plugin EXCEPT !.wrapped = TRUE]
    ELSE plugin

HookArgs == {"es", "cjs"}

HookInit ==
    /\ plugins \in PluginLists
    /\ hookPc = "setup" /\ hookError = ""
    /\ calls = <<>> /\ args = "" /\ invocations = 0

\* configResolved: the throw when the plugin is not found, else
\* hijackGenerateBundle (`hook.handler` of null throws a TypeError).
ConfigResolved ==
    /\ hookPc = "setup"
    /\ LET i == FindPlugin(plugins)
       IN  IF i = 0
           THEN /\ hookPc' = "setupFailed"
                /\ hookError' = "can't be work in versions lower than vite2.0.0"
                /\ UNCHANGED plugins
           ELSE IF plugins[i].generateBundle = "null"
           THEN /\ hookPc' = "setupFailed"
                /\ hookError' = "TypeError"
                /\ UNCHANGED plugins
           ELSE /\ plugins' = [plugins EXCEPT ![i] = hijackGenerateBundle(plugins[i])]
                /\ hookPc' = "ready"
                /\ UNCHANGED hookError
    /\ UNCHANGED <<calls, args, invocations>>
    /\ UNCHANGED <<passVars, fnVars>>

Event(who, what, a, n) == [who |-> who, what |-> what, args |-> a, inv |-> n]

\* A variant that starts the afterHook without waiting for the original.
WrapperCalled_NoAwait(a, n) ==
    <<Event("original", "start", a, n), Event("afterHook", "start", a, n)>>

\* What the wrapper does when it is called: `await fn.apply(this, args)`
\* starts the original handler, and the wrapper waits for it.
WrapperCalled(a, n) == <<Event("original", "start", a, n)>>

\* The host runs the plugin's generateBundle hook for one output: the
\* wrapper when one was installed, the plugin's own handler when it has one
\* that was not wrapped, nothing otherwise.
HostInvoke ==
    /\ hookPc \in {"ready", "returned"}
    /\ invocations < MaxInvocations
    /\ \E a \in HookArgs :
          LET p == plugins[FindPlugin(plugins)]
              n == invocations + 1
          IN  /\ invocations' = n
              /\ args' = a
              /\ IF p.wrapped
                 THEN /\ calls' = calls \o <<Event("host", "invoke", a, n)>>
                                        \o WrapperCalled(a, n)
                      /\ hookPc' = "original"
                 ELSE /\ calls' = Append(calls, Event("host", "invoke", a, n))
                      /\ hookPc' = "returned"
    /\ UNCHANGED <<plugins, hookError>>
    /\ UNCHANGED <<passVars, fnVars>>

\* The original handler's promise fulfils: `await afterHook?.apply(this, args)`.
OriginalReturn ==
    /\ hookPc = "original"
    /\ calls' = calls \o <<Event("original", "end", args, invocations),
                           Event("afterHook", "start", args, invocations)>>
    /\ hookPc' = "afterHook"
    /\ UNCHANGED <<plugins, hookError, args, invocations>>
    /\ UNCHANGED <<passVars, fnVars>>

\* The original handler's promise rejects: so does the wrapper's.
OriginalThrow ==
    /\ hookPc = "original"
    /\ calls' = Append(calls, Event("original", "throw", args, invocations))
    /\ hookPc' = "thrown"
    /\ hookError' = "original"
    /\ UNCHANGED <<plugins, args, invocations>>
    /\ UNCHANGED <<passVars, fnVars>>

AfterHookReturn ==
    /\ hookPc = "afterHook"
    /\ calls' = Append(calls, Event("afterHook", "end", args, invocations))
    /\ hookPc' = "returned"
    /\ UNCHANGED <<plugins, hookError, args, invocations>>
    /\ UNCHANGED <<passVars, fnVars>>

AfterHookThrow ==
    /\ hookPc = "afterHook"
    /\ calls' = Append(calls, Event("afterHook", "throw", args, invocations))
    /\ hookPc' = "thrown"
    /\ hookError' = "afterHook"
    /\ UNCHANGED <<plugins, args, invocations>>
    /\ UNCHANGED <<passVars, fnVars>>

HookNext ==
    \/ ConfigResolved
    \/ HostInvoke
    \/ OriginalReturn
    \/ OriginalThrow
    \/ AfterHookReturn
    \/ AfterHookThrow

InitHook == HookInit /\ PassIdle /\ FnIdle

SpecHook == InitHook /\ [][HookNext]_vars

\* The internal plugin of config.plugins.
HostPlugin == plugins[FindPlugin(plugins)]

EventsOf(who, what, n) ==
    {i \in 1..Len(calls) :
        calls[i].who = who /\ calls[i].what = what /\ calls[i].inv = n}

\* C7: once hijackGenerateBundle has wrapped the hook (a function, or the
\* handler of an object), in every invocation the afterHook starts only
\* after the original handler has ended, with the arguments the host gave;
\* the original handler is started exactly once per invocation with those
\* arguments, and the afterHook does not start when it has thrown.
C7_AfterHookRunsAfterOriginal ==
    (hookPc \notin {"setup", "setupFailed"}
        /\ HostPlugin.generateBundle \in {"function", "object"}) =>
        /\ HostPlugin.wrapped
        /\ \A n \in 1..invocations :
              /\ Cardinality(EventsOf("original", "start", n)) = 1
              /\ \A i \in EventsOf("original", "start", n) :
                    \E h \in EventsOf("host", "invoke", n) :
                        h < i /\ calls[h].args = calls[i].args
              /\ \A i \in EventsOf("afterHook", "start", n) :
                    /\ \E j \in EventsOf("original", "end", n) : j < i
                    /\ \A h \in EventsOf("host", "invoke", n) :
                          calls[h].args = calls[i].args
              /\ Cardinality(EventsOf("afterHook", "start", n)) <= 1
              /\ EventsOf("original", "throw", n) # {}
                    => EventsOf("afterHook", "start", n) = {}

\* C7 witness: the afterHook runs in the second invocation of a hook that
\* was an object with a handler.
C7_Witness ==
    /\ hookPc = "afterHook" /\ invocations = 2
    /\ HostPlugin.generateBundle = "object"

\* C7 witness companion: the same for a plain function, and an original
\* handler that threw.
FunctionHookWrapped ==
    /\ hookPc = "afterHook" /\ HostPlugin.generateBundle = "function"

OriginalThrew == hookPc = "thrown" /\ hookError = "original"

\* C8 as claimed: setup does not complete unless the wrapper was installed;
\* a missing plugin and a plugin without a usable generateBundle hook both
\* end setup with an error.
C8_SetupInstallsOrFails ==
    hookPc # "setup" =>
        \/ hookPc = "setupFailed"
        \/ FindPlugin(plugins) # 0 /\ HostPlugin.wrapped

PassNext ==
    \/ NextEntry
    \/ Exec
    \/ FetchResolve
    \/ FetchReject
    \/ ApplyChange
    \/ PassReturn
    \/ HostEmit

Init == PassInit /\ HookIdle /\ FnIdle

Next == PassNext

Spec == Init /\ [][Next]_vars


(***************************************************************************)
(* Properties of the generateBundle pass.                                  *)
(***************************************************************************)
\* The resolutions of the pass under way, and those that gave a content.
PassLog ==
    LET InPass(r) == r.doc = names[nameIdx] /\ r.pass = pass
    IN  SelectSeq(log, InPass)

FoundPassLog ==
    LET Found(r) == r.found
    IN  SelectSeq(PassLog, Found)

S_integrityEq == <<" ","i","n","t","e","g","r","i","t","y","=","\"">>
S_sha384 == <<"s","h","a","3","8","4","-">>

Scanning == pc \in {"exec", "await", "apply"}

\* The content of a resolved reference: the fetched body for a
\* network-absolute url, else the code of the chunk or the source of the
\* asset under its key.
ContentRead(r) ==
    IF isExternalUrl(r.url) THEN r.body
    ELSE IF bundle[r.key].type = "chunk" THEN bundle[r.key].code
    ELSE bundle[r.key].source

\* C1: every change of the pass under way carries "sha384-" followed by the
\* digest of the content its own reference resolved to (the fetched body,
\* the chunk's code, the asset's source), and once applied that value sits
\* in the tag of that very url.
C1_IntegrityIsDigestOfOwnContent ==
    Scanning =>
        /\ Len(changes) = Len(FoundPassLog)
        /\ \A i \in 1..Len(changes) :
              LET r == FoundPassLog[i]
                  P == changes[i].insertPos
              IN  /\ changes[i].integrity = S_sha384 \o Sha384Base64(ContentRead(r))
                  /\ Slice(passIn, P - 1 - Len(r.url), P - 1) = r.url
        /\ pc = "apply" =>
              \A i \in 1..(ci - 1) :
                  Includes(html, FoundPassLog[i].url \o <<"\"">> \o S_integrityEq
                                   \o S_sha384
                                   \o Sha384Base64(ContentRead(FoundPassLog[i])) \o <<"\"">>)

\* C1 witness: a pass has applied two changes, one hashed from a chunk's
\* code and one from a fetched body.
C1_Witness ==
    /\ pc = "apply" /\ ci = 3
    /\ \E i, j \in 1..Len(FoundPassLog) :
          /\ FoundPassLog[i].route = "bundle"
          /\ bundle[FoundPassLog[i].key].type = "chunk"
          /\ FoundPassLog[j].route = "fetch"

\* C1 witness companion: an asset's source hashed.
AssetHashed ==
    /\ pc = "apply" /\ ci = 2
    /\ FoundPassLog[1].route = "bundle"
    /\ bundle[FoundPassLog[1].key].type = "asset"

RECURSIVE LengthsBefore(_, _)
\* L_1 + ... + L_(i-1) of a list of changes.
LengthsBefore(chs, i) ==
    IF i <= 1 THEN 0
    ELSE Len(InsertText(chs[i - 1])) + LengthsBefore(chs, i - 1)

RECURSIVE InsertedFromRight(_, _, _)
\* text with the first k changes inserted at their original positions, the
\* rightmost first (no offset is needed that way).
InsertedFromRight(text, chs, k) ==
    IF k = 0 THEN text
    ELSE InsertedFromRight(
             Slice(text, 0, chs[k].insertPos) \o InsertText(chs[k])
                 \o Slice(text, chs[k].insertPos, Len(text)),
             chs, k - 1)

\* The closing text a match of the pass ends with: `></script>` or `>`.
Closing(p) ==
    IF p = 1 THEN <<">","<","/","s","c","r","i","p","t",">">> ELSE <<">">>

\* C2: in a pass the original positions are P_1 < P_2 < ..., each the end
\* of its match less endOffset, and the i-th inserted text starts in the
\* output at P_i + L_1 + ... + L_(i-1); the rest of the text is untouched.
C2_InsertionPositionLaw ==
    pc = "apply" =>
        /\ \A i \in 1..Len(changes) :
              /\ changes[i].insertPos = FoundPassLog[i].end - EndOffset(pass)
              /\ Slice(passIn, changes[i].insertPos, FoundPassLog[i].end) = Closing(pass)
              /\ i > 1 => changes[i - 1].insertPos < changes[i].insertPos
        /\ \A i \in 1..(ci - 1) :
              LET at == changes[i].insertPos + LengthsBefore(changes, i)
                  t == InsertText(changes[i])
              IN  Slice(html, at, at + Len(t)) = t
        /\ html = InsertedFromRight(passIn, changes, ci - 1)

\* C2 witness: a pass has made two insertions of different lengths.
C2_Witness ==
    /\ pc = "apply" /\ ci = 3 /\ Len(changes) = 2
    /\ Len(InsertText(changes[1])) # Len(InsertText(changes[2]))

\* C2 witness companion: an insertion made after a filtered-out match and
\* after a skipped (missing, ignored) match of the same pass.
InsertionAfterSkip ==
    /\ pc = "apply" /\ ci = 2 /\ Len(changes) = 1
    /\ \/ Len(PassLog) = 2 /\ ~PassLog[1].found
       \/ Len(PassLog) = 1 /\ lastIndex[pass] = 0
            /\ ExecFrom(Regex(pass), passIn, 0).end < PassLog[1].end



\* The HTML entries of the bundle.
HtmlNames == {n \in DOMAIN bundle : IsHtmlEntry(bundle[n])}

\* A processed reference that is not network-absolute and whose key has no
\* entry in the bundle.
MissingSeen ==
    \E i \in 1..Len(log) :
        /\ ~isExternalUrl(log[i].url)
        /\ getBundleKey(configBase, log[i].doc, log[i].url) \notin DOMAIN bundle

\* C3 as claimed: with ignoreMissingAssets left at false, once a processed
\* reference that is not network-absolute has no bundle entry (and no
\* resolution is pending) the pass has ended with the MissingAsset error; a
\* failed build has written no HTML file, and HTML files are written only
\* after the pass has gone through every document without an error.
C3_FailFastNoPartialOutput ==
    /\ (options.ignoreMissingAsset = JsBool(FALSE) /\ MissingSeen /\ pc # "await")
          => (pc = "failed" /\ error = "MissingAsset")
    /\ pc = "failed" => emitted = {}
    /\ emitted # {} =>
          /\ pc = "emitted" /\ error = "" /\ nameIdx > Len(names)
          /\ {e.name : e \in emitted} = HtmlNames
          /\ \A e \in emitted : e.text = bundle[e.name].source

\* C6 as claimed: a url is fetched exactly when it is network-absolute
\* (http://, https:// or //), and only a url that is not network-absolute
\* is looked up in the bundle (and can end in MissingAsset).
C6_DispatchFollowsIsExternalUrl ==
    \A i \in 1..Len(log) :
        (log[i].route = "fetch") <=> isExternalUrl(log[i].url)

\* All matches of re in text, left to right.
RECURSIVE ScanAll(_, _, _)
ScanAll(re, text, from) ==
    LET m == ExecFrom(re, text, from)
    IN  IF m.ok THEN <<m>> \o ScanAll(re, text, m.end) ELSE <<>>

\* The matches of the pass's input that pass the filter.
ProcessedMatches ==
    LET Kept(m) == shouldProcessUrl(m.url, FilterOptions)
    IN  SelectSeq(ScanAll(Regex(pass), passIn, 0), Kept)

\* C10: while a pass is scanning or awaiting a resolution, the text is the
\* one the pass received (nothing inserted yet); when the insertions begin,
\* every processed match of that text has been resolved, in scanner order,
\* and the changes are in that order and are applied in that order.
C10_ComputeBeforePatch ==
    /\ pc \in {"exec", "await"} => html = passIn /\ offset = 0 /\ ci = 1
    /\ (pc = "apply" /\ ci = 1) =>
          \E pm \in {ProcessedMatches}, pl \in {PassLog}, fl \in {FoundPassLog} :
              /\ html = passIn /\ offset = 0
              /\ Len(pl) = Len(pm)
              /\ \A k \in 1..Len(pl) :
                    /\ pl[k].url = pm[k].url
                    /\ pl[k].end = pm[k].end
                    /\ pl[k].route = "fetch" => pl[k].found
              /\ \A i \in 1..Len(changes) :
                    changes[i].insertPos = fl[i].end - EndOffset(pass)
    /\ pc = "apply" => Len(html) = Len(passIn) + LengthsBefore(changes, ci)

\* C10 witness: the first insertion of a pass whose second reference had to
\* be fetched.
C10_Witness ==
    /\ pc = "apply" /\ ci = 2 /\ Len(changes) = 2
    /\ html # passIn
    /\ PassLog[2].route = "fetch"

\* C10 witness companion: a fetch is pending after a change was computed.
PendingAfterChange == pc = "await" /\ Len(changes) = 1


(***************************************************************************)
(* The policy functions and getBundleKey on their own: the arguments are   *)
(* drawn at the start, one step applies the function.                      *)
(***************************************************************************)
\* A user's RegExp entries: /\/a/ and /c['"]*/.
Re_slashA == <<Lit(<<"/","a">>)>>
Re_cQuotes == <<Lit(<<"c">>), Q>>

PatternLists ==
    {JsUndefined, JsArray(<<>>), JsArray(<<PatStr(<<"c">>)>>),
     JsArray(<<PatRe(Re_slashA)>>), JsArray(<<PatStr(<<"m">>), PatRe(Re_cQuotes)>>)}

FilterCalls ==
    {[fn |-> "shouldProcessUrl", url |-> u,
      options |-> [excludeExternal |-> x, excludePatterns |-> e,
                   includePatterns |-> i, customCrossorigin |-> JsUndefined]] :
        u \in DocUrls, x \in {JsUndefined, JsBool(FALSE), JsBool(TRUE)},
        e \in PatternLists, i \in PatternLists}

InitFilter == call \in FilterCalls /\ ret = NoCall /\ PassIdle /\ HookIdle

ApplyShouldProcessUrl ==
    /\ call.fn = "shouldProcessUrl" /\ ret = NoCall
    /\ ret' = [fn |-> call.fn, value |-> shouldProcessUrl(call.url, call.options)]
    /\ UNCHANGED <<call, passVars, hookVars>>

SpecFilter == InitFilter /\ [][ApplyShouldProcessUrl]_vars

\* Whether some entry of a pattern list matches: a string entry as a
\* substring, a pattern entry by its test.
SomeEntryMatches(url, list) ==
    /\ list.t = "array"
    /\ \E k \in 1..Len(list.v) :
          \/ list.v[k].kind = "string" /\ Includes(url, list.v[k].s)
          \/ list.v[k].kind = "regexp" /\ ExecFrom(list.v[k].re, url, 0).ok

NonEmptyList(list) == list.t = "array" /\ Len(list.v) > 0

\* C4 as claimed: shouldProcessUrl is true exactly when the url is not an
\* excluded external one, no excludePatterns entry matches it, and
\* includePatterns is unset, empty, or has an entry that matches it.
C4_ShouldProcessExactly ==
    ret # NoCall =>
        (ret.value <=>
            /\ ~(call.options.excludeExternal = JsBool(TRUE) /\ isExternalUrl(call.url))
            /\ ~SomeEntryMatches(call.url, call.options.excludePatterns)
            /\ ~(NonEmptyList(call.options.includePatterns)
                    /\ ~SomeEntryMatches(call.url, call.options.includePatterns)))

CrossoriginValues ==
    {JsUndefined, JsNull, JsBool(FALSE), JsBool(TRUE), JsStr(S_anonymous),
     JsStr(S_useCredentials), JsStr(<<>>)}

\* customCrossorigin functions: one per constant result of the declared
\* type (string | boolean | null), and one that looks at the url.
CustomFunctions ==
    {JsFunction([u \in DocUrls |-> r]) :
        r \in {JsNull, JsBool(FALSE), JsBool(TRUE), JsStr(S_useCredentials), JsStr(<<>>)}}
    \cup {JsFunction(CustomByUrl)}

CrossCalls ==
    {[fn |-> "getCrossoriginAttribute", url |-> u,
      options |-> [crossorigin |-> c, customCrossorigin |-> f]] :
        u \in DocUrls, c \in CrossoriginValues, f \in CustomFunctions \cup {JsUndefined}}

InitCross == call \in CrossCalls /\ ret = NoCall /\ PassIdle /\ HookIdle

ApplyGetCrossoriginAttribute ==
    /\ call.fn = "getCrossoriginAttribute" /\ ret = NoCall
    /\ ret' = [fn |-> call.fn,
               value |-> getCrossoriginAttribute(call.url, call.options)]
    /\ UNCHANGED <<call, passVars, hookVars>>

SpecCross == InitCross /\ [][ApplyGetCrossoriginAttribute]_vars

\* C5: with a customCrossorigin function configured, the text is decided by
\* what the function returns for the url: nothing for null or false,
\* crossorigin="anonymous" for true, crossorigin="<s>" for a string s;
\* whatever the static crossorigin option is.
C5_CustomFunctionDecides ==
    (ret # NoCall /\ call.options.customCrossorigin.t = "function") =>
        LET result == call.options.customCrossorigin.v[call.url]
        IN  ret.value =
                CASE result = JsNull -> <<>>
                  [] result = JsBool(FALSE) -> <<>>
                  [] result = JsBool(TRUE) ->
                        <<" ","c","r","o","s","s","o","r","i","g","i","n","=","\"",
                          "a","n","o","n","y","m","o","u","s","\"">>
                  [] result.t = "string" ->
                        <<" ","c","r","o","s","s","o","r","i","g","i","n","=","\"">>
                            \o result.v \o <<"\"">>

\* C5 witness: the function suppresses the attribute although the static
\* option asks for use-credentials.
C5_Witness ==
    /\ ret # NoCall
    /\ call.options.customCrossorigin.t = "function"
    /\ call.options.customCrossorigin.v[call.url] = JsNull
    /\ call.options.crossorigin = JsStr(S_useCredentials)
    /\ ret.value = <<>>

\* C5 witness companion: the function asks for the attribute although the
\* static option is false.
CustomOverridesStaticFalse ==
    /\ ret # NoCall
    /\ call.options.customCrossorigin.t = "function"
    /\ call.options.customCrossorigin.v[call.url] = JsBool(TRUE)
    /\ call.options.crossorigin = JsBool(FALSE)
    /\ ret.value # <<>>

H_index == <<"i">> \o S_dotHtml
H_subPage == <<"s","/","p">> \o S_dotHtm

KeyUrls ==
    {U_a, <<".","/","a">>, <<"a">>, <<".",".","/","a">>, <<"s","/","a">>,
     <<"/","b","/","a">>, <<"b","/","a">>}

KeyCalls ==
    {[fn |-> "getBundleKey", base |-> b, htmlPath |-> h, url |-> u] :
        b \in {<<>>, <<".","/">>, <<"/">>, <<"/","b","/">>},
        h \in {H_index, H_subPage}, u \in KeyUrls}

InitKey == call \in KeyCalls /\ ret = NoCall /\ PassIdle /\ HookIdle

ApplyGetBundleKey ==
    /\ call.fn = "getBundleKey" /\ ret = NoCall
    /\ ret' = [fn |-> call.fn,
               value |-> getBundleKey(call.base, call.htmlPath, call.url)]
    /\ UNCHANGED <<call, passVars, hookVars>>

SpecKey == InitKey /\ [][ApplyGetBundleKey]_vars

RECURSIVE JoinRelative(_)
JoinRelative(segs) ==
    IF segs = <<>> THEN <<>>
    ELSE IF Len(segs) = 1 THEN Head(segs)
    ELSE Head(segs) \o <<"/">> \o JoinRelative(Tail(segs))

\* The output-relative path a url in a document refers to: the url taken
\* from the document's directory (from the output root when it begins with
\* "/"), with . and .. resolved.
ReferredPath(htmlPath, url) ==
    LET dir == SplitSlash(htmlPath, <<>>)
        from == IF IsAbsolutePath(url) THEN <<>> ELSE SubSeq(dir, 1, Len(dir) - 1)
    IN  JoinRelative(NormalizeSegments(from \o SplitSlash(url, <<>>), <<>>))

\* C9 as claimed: with base "" or "./" the key is the output-relative path
\* of the referenced file (sub/page.html with ../assets/x.js gives
\* assets/x.js); otherwise it is the url less the base path prefix.
C9_KeyIsOutputRelativePath ==
    ret # NoCall =>
        IF call.base = <<>> \/ call.base = <<".","/">>
        THEN ret.value = ReferredPath(call.htmlPath, call.url)
        ELSE ret.value =
                IF StartsWith(call.url, call.base)
                THEN Slice(call.url, Len(call.base), Len(call.url))
                ELSE call.url

=============================================================================
